---- MODULE Spec2Model ----
(***************************************************************************)
(* Model of pkg/haproxy/instance.go: the two-slot configuration state      *)
(* (oldConfig, curConfig) of an instance and the Update cycle that builds, *)
(* compares, patches, writes, rotates, validates and reloads.              *)
(*                                                                         *)
(* Update is modelled statement by statement: every call to an external    *)
(* collaborator is one step of the invocation, steps of one invocation run *)
(* in program order, and under Spec no other operation of the instance     *)
(* runs between them (invocations are serialized).  Every step appends the *)
(* calls, log lines and timer ticks it performs to the invocation's trace, *)
(* each stamped with the value of both slots when it happened.             *)
(***************************************************************************)
EXTENDS Integers, Sequences, FiniteSets, TLC

\* ---------------------------------------------------------------- bounds
\* number of configuration objects createConfig can allocate in a run
MaxGen == 3
\* distinct non-empty structural contents a caller can give a configuration
NumContents == 1
\* largest command count the dynamic updater reports
MaxCmd == 1
\* number of callers that may invoke Update
NumProcs == 2

Nil == 0
Gens == 1..MaxGen
Contents == 0..NumContents
Procs == 1..NumProcs

VARIABLES
    oldConfig,   \* instance.oldConfig: Nil or a configuration object
    curConfig,   \* instance.curConfig: Nil or a configuration object
    options,     \* instance.options, fixed at CreateInstance
    heap,        \* structural content of every configuration object
    nextGen,     \* next object createConfig allocates
    cfgRet,      \* the value the last Config() call returned
    pc,          \* per invocation: the statement of Update it is at
    cont,        \* per invocation: where the running clearConfig returns to
    updated,     \* per invocation: local `updated` (updater.update())
    cmdCnt,      \* per invocation: updater.cmdCnt
    trace,       \* per invocation: what the current/last cycle did
    tmpl,        \* instance.templates / instance.mapsTemplate and the last ParseTemplates
    hist         \* reload history: what the running process was last asked to load

vars == <<oldConfig, curConfig, options, heap, nextGen, cfgRet,
          pc, cont, updated, cmdCnt, trace, tmpl, hist>>

\* InstanceOptions as far as Update, check and reload read them.
InstanceOptions ==
    [SortBackends : BOOLEAN, ValidateConfig : BOOLEAN,
     HAProxyCmd : {"", "haproxy"}, ReloadCmd : {"", "haproxy-reload.sh"}]

\* The reload history: `good` is the generation of the last reload() that
\* returned nil, `failed` the generation whose reload() failed in the last
\* cycle that reloaded, `cmp` the value `failed` had when the cycle in
\* progress (or the last one) began, `overlap` whether an Update was ever
\* entered while another invocation of Update was in progress.

\* One entry of a trace: a call, a subprocess execution, a log line or a
\* timer tick, with the slots as they were when it happened.
Ev(kind, op, ok, arg) ==
    [kind |-> kind, op |-> op, ok |-> ok, arg |-> arg,
     cur |-> curConfig, old |-> oldConfig]
Call(op, ok) == Ev("call", op, ok, 0)
Exec(op, ok) == Ev("exec", op, ok, 0)
Log(op)      == Ev("log", op, TRUE, 0)
LogN(op, n)  == Ev("log", op, TRUE, n)
Tick(op)     == Ev("tick", op, TRUE, 0)

Emit(p, evs) == trace' = [trace EXCEPT ![p] = @ \o evs]
Goto(p, l)   == pc' = [pc EXCEPT ![p] = l]

\* Update returns: its locals (updater, updated) are gone.
Return(p) ==
    /\ pc' = [pc EXCEPT ![p] = "idle"]
    /\ cont' = [cont EXCEPT ![p] = "return"]
    /\ updated' = [updated EXCEPT ![p] = FALSE]
    /\ cmdCnt' = [cmdCnt EXCEPT ![p] = 0]

\* Config.Equals: structural equality; an absent old is never equal.
Equals(c, o) == o # Nil /\ heap[c] = heap[o]

\* CreateInstance: both slots absent.
Init ==
    /\ oldConfig = Nil
    /\ curConfig = Nil
    /\ options \in InstanceOptions
    /\ heap = [g \in Gens |-> 0]
    /\ nextGen = 1
    /\ cfgRet = Nil
    /\ pc = [p \in Procs |-> "idle"]
    /\ cont = [p \in Procs |-> "return"]
    /\ updated = [p \in Procs |-> FALSE]
    /\ cmdCnt = [p \in Procs |-> 0]
    /\ trace = [p \in Procs |-> <<>>]
    /\ tmpl = [templates |-> <<>>, mapsTemplate |-> <<>>, calls |-> <<>>, err |-> FALSE]
    /\ hist = [good |-> Nil, failed |-> Nil, cmp |-> Nil, overlap |-> FALSE]

\* template.Config.ClearTemplates: forget every registered template.
ClearTemplates(c) == <<>>

\* template.Config.NewTemplate: parse the template file and register it;
\* a template that does not parse is not registered.
NewTemplate(c, name, fails) == IF fails THEN c ELSE Append(c, name)

\* Mutant of ParseTemplates: an error is remembered and returned at the end,
\* after the remaining registrations were attempted.
ParseTemplates_continuesAfterError(F) ==
    LET t1 == NewTemplate(ClearTemplates(tmpl.templates), "spoe-modsecurity.tmpl", 1 \in F)
        t2 == NewTemplate(t1, "haproxy.tmpl", 2 \in F)
        m3 == NewTemplate(ClearTemplates(tmpl.mapsTemplate), "map.tmpl", 3 \in F)
    IN  /\ tmpl' = [templates |-> t2, mapsTemplate |-> m3,
                    calls |-> <<"templates.ClearTemplates", "mapsTemplate.ClearTemplates",
                                "spoe-modsecurity.tmpl", "haproxy.tmpl", "map.tmpl">>,
                    err |-> F # {}]
        /\ UNCHANGED <<oldConfig, curConfig, options, hist, heap, nextGen, cfgRet,
                       pc, cont, updated, cmdCnt, trace>>

\* ParseTemplates, lines 70-99, given the set F of registrations (1..3, in
\* source order) whose template would not parse.
ParseTemplates(F) ==
    LET t0 == ClearTemplates(tmpl.templates)
        m0 == ClearTemplates(tmpl.mapsTemplate)
        c0 == <<"templates.ClearTemplates", "mapsTemplate.ClearTemplates">>
        t1 == NewTemplate(t0, "spoe-modsecurity.tmpl", 1 \in F)
        c1 == Append(c0, "spoe-modsecurity.tmpl")
        t2 == NewTemplate(t1, "haproxy.tmpl", 2 \in F)
        c2 == Append(c1, "haproxy.tmpl")
        m3 == NewTemplate(m0, "map.tmpl", 3 \in F)
        c3 == Append(c2, "map.tmpl")
    IN  /\ tmpl' =
              IF 1 \in F
                THEN [templates |-> t1, mapsTemplate |-> m0, calls |-> c1, err |-> TRUE]
              ELSE IF 2 \in F
                THEN [templates |-> t2, mapsTemplate |-> m0, calls |-> c2, err |-> TRUE]
              ELSE [templates |-> t2, mapsTemplate |-> m3, calls |-> c3, err |-> 3 \in F]
        /\ UNCHANGED <<oldConfig, curConfig, options, hist, heap, nextGen, cfgRet,
                       pc, cont, updated, cmdCnt, trace>>

\* No Update invocation is in progress.
Quiescent == \A q \in Procs : pc[q] = "idle"

\* Mutant of Config: a new generation is created on every call.
Config_alwaysCreates ==
    /\ nextGen <= MaxGen
    /\ curConfig' = nextGen
    /\ nextGen' = nextGen + 1
    /\ cfgRet' = curConfig'
    /\ UNCHANGED <<oldConfig, options, tmpl, hist, heap, pc, cont, updated, cmdCnt, trace>>

\* instance.Config: get-or-create of the current slot.
Config ==
    /\ IF curConfig = Nil
         THEN /\ nextGen <= MaxGen
              /\ curConfig' = nextGen
              /\ nextGen' = nextGen + 1
         ELSE UNCHANGED <<curConfig, nextGen>>
    /\ cfgRet' = curConfig'
    /\ UNCHANGED <<oldConfig, options, tmpl, hist, heap, pc, cont, updated, cmdCnt, trace>>

\* The caller fills the configuration Config() handed out.
Populate(c) ==
    /\ cfgRet # Nil
    /\ cfgRet = curConfig
    /\ heap' = [heap EXCEPT ![cfgRet] = c]
    /\ UNCHANGED <<oldConfig, curConfig, options, tmpl, hist, nextGen, cfgRet,
                   pc, cont, updated, cmdCnt, trace>>

\* ------------------------------------------------------------ Update
\* A method call on a nil i.curConfig: the invocation panics.
Panic(p) ==
    /\ Goto(p, "panic")
    /\ Emit(p, <<Ev("panic", "nil curConfig", FALSE, 0)>>)
    /\ UNCHANGED <<oldConfig, curConfig, options, tmpl, hist, heap, nextGen, cfgRet,
                   cont, updated, cmdCnt>>

\* Mutant of CallClearConfig: the rotation of line 158 is left for after the
\* final branch, which then runs on the unrotated slots.
CallClearConfig_notBeforeFinal(p, k) ==
    IF k = "final"
      THEN Goto(p, "final") /\ UNCHANGED cont
      ELSE Goto(p, "clearConfig") /\ cont' = [cont EXCEPT ![p] = k]

\* Enter clearConfig from a call site; `k` is what the call site does next.
CallClearConfig(p, k) ==
    /\ Goto(p, "clearConfig")
    /\ cont' = [cont EXCEPT ![p] = k]

\* Mutant of Update_enter: the nil test of line 114 is missing.
Update_enter_noNilTest(p) ==
    /\ pc[p] = "idle"
    /\ trace' = [trace EXCEPT ![p] = <<Call("Update", TRUE)>>]
    /\ Goto(p, "BuildFrontendGroup")
    /\ hist' = [hist EXCEPT !.cmp = hist.failed, !.failed = Nil,
                            !.overlap = @ \/ ~Quiescent]
    /\ UNCHANGED <<oldConfig, curConfig, options, tmpl, heap, nextGen, cfgRet,
                   cont, updated, cmdCnt>>

\* Mutant of Update_enter: the rotation runs before the nil test.
Update_enter_rotatesNil(p) ==
    /\ pc[p] = "idle"
    /\ IF curConfig = Nil
         THEN /\ trace' = [trace EXCEPT ![p] =
                     <<Call("Update", TRUE), Log("Info: new configuration is empty")>>]
              /\ oldConfig' = curConfig
              /\ UNCHANGED pc
         ELSE /\ trace' = [trace EXCEPT ![p] = <<Call("Update", TRUE)>>]
              /\ Goto(p, "BuildFrontendGroup")
              /\ UNCHANGED oldConfig
    /\ UNCHANGED <<curConfig, options, tmpl, hist, heap, nextGen, cfgRet, cont, updated, cmdCnt>>

\* Update, lines 112-117: a nil current configuration is ignored.
Update_enter(p) ==
    /\ pc[p] = "idle"
    /\ IF curConfig = Nil
         THEN /\ trace' = [trace EXCEPT ![p] =
                     <<Call("Update", TRUE), Log("Info: new configuration is empty")>>]
              /\ UNCHANGED pc
              /\ hist' = [hist EXCEPT !.overlap = @ \/ ~Quiescent]
         ELSE /\ trace' = [trace EXCEPT ![p] = <<Call("Update", TRUE)>>]
              /\ Goto(p, "BuildFrontendGroup")
              /\ hist' = [hist EXCEPT !.cmp = hist.failed, !.failed = Nil,
                                      !.overlap = @ \/ ~Quiescent]
    /\ UNCHANGED <<oldConfig, curConfig, options, tmpl, heap, nextGen, cfgRet,
                   cont, updated, cmdCnt>>

\* Mutant of Update_buildFrontendGroup: the error path returns without
\* rotating the slots.
Update_buildFrontendGroup_returnsUnrotated(p, err) ==
    /\ pc[p] = "BuildFrontendGroup"
    /\ IF curConfig = Nil THEN Panic(p) ELSE
         /\ IF err
              THEN /\ Emit(p, <<Call("BuildFrontendGroup", FALSE),
                                Log("Error: error building configuration group")>>)
                   /\ Return(p)
              ELSE /\ Emit(p, <<Call("BuildFrontendGroup", TRUE)>>)
                   /\ Goto(p, "BuildBackendMaps")
                   /\ UNCHANGED <<cont, updated, cmdCnt>>
         /\ UNCHANGED <<oldConfig, curConfig, options, tmpl, hist, heap, nextGen, cfgRet>>

\* Update, lines 124-128: build the frontend groups; on error log, rotate, return.
Update_buildFrontendGroup(p, err) ==
    /\ pc[p] = "BuildFrontendGroup"
    /\ IF curConfig = Nil THEN Panic(p) ELSE
         /\ IF err
              THEN /\ Emit(p, <<Call("BuildFrontendGroup", FALSE),
                                Log("Error: error building configuration group")>>)
                   /\ CallClearConfig(p, "return")
              ELSE /\ Emit(p, <<Call("BuildFrontendGroup", TRUE)>>)
                   /\ Goto(p, "BuildBackendMaps")
                   /\ UNCHANGED cont
         /\ UNCHANGED <<oldConfig, curConfig, options, tmpl, hist, heap, nextGen, cfgRet,
                        updated, cmdCnt>>

\* Mutant of Update_buildBackendMaps: the error is logged but not returned on.
Update_buildBackendMaps_ignoresError(p, err) ==
    /\ pc[p] = "BuildBackendMaps"
    /\ IF curConfig = Nil THEN Panic(p) ELSE
         /\ Emit(p, IF err THEN <<Call("BuildBackendMaps", FALSE),
                                  Log("Error: error building backend maps")>>
                           ELSE <<Call("BuildBackendMaps", TRUE)>>)
         /\ Goto(p, "Equals")
         /\ UNCHANGED <<oldConfig, curConfig, options, tmpl, hist, heap, nextGen, cfgRet,
                        cont, updated, cmdCnt>>

\* Update, lines 129-133: build the backend maps; on error log, rotate, return.
Update_buildBackendMaps(p, err) ==
    /\ pc[p] = "BuildBackendMaps"
    /\ IF curConfig = Nil THEN Panic(p) ELSE
         /\ IF err
              THEN /\ Emit(p, <<Call("BuildBackendMaps", FALSE),
                                Log("Error: error building backend maps")>>)
                   /\ CallClearConfig(p, "return")
              ELSE /\ Emit(p, <<Call("BuildBackendMaps", TRUE)>>)
                   /\ Goto(p, "Equals")
                   /\ UNCHANGED cont
         /\ UNCHANGED <<oldConfig, curConfig, options, tmpl, hist, heap, nextGen, cfgRet,
                        updated, cmdCnt>>

\* Mutant of Update_equals: the comparison is made but never skips the cycle.
Update_equals_neverSkips(p) ==
    /\ pc[p] = "Equals"
    /\ IF curConfig = Nil THEN Panic(p) ELSE
         /\ Emit(p, <<Call("Equals", Equals(curConfig, oldConfig))>>)
         /\ Goto(p, "update")
         /\ UNCHANGED <<oldConfig, curConfig, options, tmpl, hist, heap, nextGen, cfgRet,
                        cont, updated, cmdCnt>>

\* Update, lines 134-138: current equal to old: log, rotate, return.
Update_equals(p) ==
    /\ pc[p] = "Equals"
    /\ IF curConfig = Nil THEN Panic(p) ELSE
         /\ IF Equals(curConfig, oldConfig)
              THEN /\ Emit(p, <<Call("Equals", TRUE),
                                Log("InfoV(2): old and new configurations match, skipping reload")>>)
                   /\ CallClearConfig(p, "return")
              ELSE /\ Emit(p, <<Call("Equals", FALSE)>>)
                   /\ Goto(p, "update")
                   /\ UNCHANGED cont
         /\ UNCHANGED <<oldConfig, curConfig, options, tmpl, hist, heap, nextGen, cfgRet,
                        updated, cmdCnt>>

\* Update, lines 139-140: the dynamic updater reports (updated, cmdCnt).
Update_dynUpdate(p, u, c) ==
    /\ pc[p] = "update"
    /\ Emit(p, <<Ev("call", "update", u, c)>>)
    /\ updated' = [updated EXCEPT ![p] = u]
    /\ cmdCnt' = [cmdCnt EXCEPT ![p] = c]
    /\ Goto(p, "SortEndpoints")
    /\ UNCHANGED <<oldConfig, curConfig, options, tmpl, hist, heap, nextGen, cfgRet, cont>>

\* Mutants of NeedWrite: one half of the condition of line 146 is dropped.
NeedWrite_onlyWhenNotUpdated(u, c) == ~u
NeedWrite_onlyWhenCommands(u, c) == c > 0

\* Update, line 146: the templates are rewritten unless everything was
\* applied dynamically with no command sent.
NeedWrite(u, c) == ~u \/ c > 0

\* Update, lines 141-146: optional endpoint sort, then the write gate.
Update_sortBackends(p) ==
    /\ pc[p] = "SortEndpoints"
    /\ IF options.SortBackends /\ curConfig = Nil THEN Panic(p) ELSE
         /\ Emit(p, IF options.SortBackends
                      THEN <<Call("SortEndpoints", TRUE)>> ELSE <<>>)
         /\ IF NeedWrite(updated[p], cmdCnt[p])
              THEN Goto(p, "Write") /\ UNCHANGED cont
              ELSE CallClearConfig(p, "final")
         /\ UNCHANGED <<oldConfig, curConfig, options, tmpl, hist, heap, nextGen, cfgRet,
                        updated, cmdCnt>>

\* Mutant of AfterWrite: the write error is not returned on.
AfterWrite_ignoresError(err) == "final"

\* Update, lines 152-156 and 158: what follows the write.
AfterWrite(err) == IF err THEN "return" ELSE "final"

\* Mutant of Update_write: the checkpoint is recorded only for a write that
\* succeeded.
Update_write_ticksOnSuccess(p, err) ==
    /\ pc[p] = "Write"
    /\ Emit(p, <<Ev("call", "Write", ~err, Len(tmpl.templates))>>
               \o (IF err THEN <<Log("Error: error writing configuration")>>
                   ELSE <<Tick("writeTmpl")>>))
    /\ CallClearConfig(p, AfterWrite(err))
    /\ UNCHANGED <<oldConfig, curConfig, options, tmpl, hist, heap, nextGen, cfgRet,
                   updated, cmdCnt>>

\* Update, lines 150-158: write the templates, tick; on error log, rotate, return.
Update_write(p, err) ==
    /\ pc[p] = "Write"
    /\ Emit(p, <<Ev("call", "Write", ~err, Len(tmpl.templates)), Tick("writeTmpl")>>
               \o (IF err THEN <<Log("Error: error writing configuration")>> ELSE <<>>))
    /\ CallClearConfig(p, AfterWrite(err))
    /\ UNCHANGED <<oldConfig, curConfig, options, tmpl, hist, heap, nextGen, cfgRet,
                   updated, cmdCnt>>

\* Mutant of clearConfig_store: before a reload the old slot is kept, to be
\* replaced only once the reload has succeeded (which never happens here).
clearConfig_store_notBeforeReload(p) ==
    /\ pc[p] = "clearConfig"
    /\ Emit(p, <<Call("clearConfig", TRUE)>>)
    /\ oldConfig' = IF cont[p] = "final" /\ ~updated[p] THEN oldConfig ELSE curConfig
    /\ Goto(p, "clearConfig.nil")
    /\ UNCHANGED <<curConfig, options, tmpl, hist, heap, nextGen, cfgRet, cont, updated, cmdCnt>>

\* clearConfig, line 212: i.oldConfig = i.curConfig
clearConfig_store(p) ==
    /\ pc[p] = "clearConfig"
    /\ Emit(p, <<Call("clearConfig", TRUE)>>)
    /\ oldConfig' = curConfig
    /\ Goto(p, "clearConfig.nil")
    /\ UNCHANGED <<curConfig, options, tmpl, hist, heap, nextGen, cfgRet, cont, updated, cmdCnt>>

\* Mutant of clearConfig_nil: the current slot is not cleared.
clearConfig_nil_keepsCurrent(p) ==
    /\ pc[p] = "clearConfig.nil"
    /\ IF cont[p] = "return"
         THEN Return(p)
         ELSE Goto(p, "final") /\ UNCHANGED <<cont, updated, cmdCnt>>
    /\ UNCHANGED <<oldConfig, curConfig, options, tmpl, hist, heap, nextGen, cfgRet, trace>>

\* clearConfig, line 213: i.curConfig = nil, then back to the call site:
\* the failure and skip sites return from Update, line 158 goes on to 159.
clearConfig_nil(p) ==
    /\ pc[p] = "clearConfig.nil"
    /\ curConfig' = Nil
    /\ IF cont[p] = "return"
         THEN Return(p)
         ELSE Goto(p, "final") /\ UNCHANGED <<cont, updated, cmdCnt>>
    /\ UNCHANGED <<oldConfig, options, tmpl, hist, heap, nextGen, cfgRet, trace>>

\* Mutant of NeedReload: the early return of line 171 is missing.
NeedReload_always(u) == TRUE

\* Update, lines 159 and 173: reload unless everything was applied dynamically.
NeedReload(u) == ~u

\* Mutant of NeedValidate: the ValidateConfig option is not consulted.
NeedValidate_ignoresOption(u, c) == u /\ c > 0

\* Update, lines 159-161: validate after a dynamic update that sent commands.
NeedValidate(u, c) == u /\ c > 0 /\ options.ValidateConfig

\* Update, lines 167 and 169: the summary of a dynamic update.
Summary(c) ==
    IF c > 0
      THEN LogN("Info: HAProxy updated without needing to reload. Commands sent", c)
      ELSE Log("Info: old and new configurations match")

\* Update, lines 159-172 when neither check nor reload is called.
Update_final(p) ==
    /\ pc[p] = "final"
    /\ IF NeedReload(updated[p])
         THEN Goto(p, "reload") /\ UNCHANGED <<trace, cont, updated, cmdCnt>>
       ELSE IF NeedValidate(updated[p], cmdCnt[p])
         THEN Goto(p, "check") /\ UNCHANGED <<trace, cont, updated, cmdCnt>>
       ELSE Return(p) /\ Emit(p, <<Summary(cmdCnt[p])>>)
    /\ UNCHANGED <<oldConfig, curConfig, options, tmpl, hist, heap, nextGen, cfgRet>>

\* check, lines 181-192: what it does and whether it returns an error, given
\* whether the haproxy -c subprocess fails.
check(fails) ==
    IF options.HAProxyCmd = ""
      THEN [evs |-> <<Log("Info: (test) check was skipped")>>, err |-> FALSE]
      ELSE [evs |-> <<Exec("check", ~fails)>>, err |-> fails]

\* Mutant of reload: the output is logged only when the command failed.
reload_warnsOnlyOnFailure(fails, out) ==
    IF options.ReloadCmd = ""
      THEN [evs |-> <<Log("Info: (test) reload was skipped")>>, err |-> FALSE]
      ELSE [evs |-> <<Ev("exec", "reload", ~fails, IF out THEN 1 ELSE 0)>>
                    \o (IF out /\ fails THEN <<Log("Warn: output from haproxy")>> ELSE <<>>),
            err |-> fails]

\* reload, lines 194-208: what it does and whether it returns an error, given
\* whether the reload subprocess fails and whether it printed anything (the
\* subprocess run records arg = 1 when it printed something).
reload(fails, out) ==
    IF options.ReloadCmd = ""
      THEN [evs |-> <<Log("Info: (test) reload was skipped")>>, err |-> FALSE]
      ELSE [evs |-> <<Ev("exec", "reload", ~fails, IF out THEN 1 ELSE 0)>>
                    \o (IF out THEN <<Log("Warn: output from haproxy")>> ELSE <<>>),
            err |-> fails]

\* Mutant of Update_check: a validation error ends the cycle.
Update_check_abortsOnError(p, fails) ==
    /\ pc[p] = "check"
    /\ LET r == check(fails) IN
         Emit(p, <<Call("check", ~r.err)>> \o r.evs
                 \o (IF r.err THEN <<Log("Error: error validating config file")>>
                     ELSE <<Tick("validate"), Summary(cmdCnt[p])>>))
    /\ Return(p)
    /\ UNCHANGED <<oldConfig, curConfig, options, tmpl, hist, heap, nextGen, cfgRet>>

\* Update, lines 162-171: validation is advisory; the summary follows.
Update_check(p, fails) ==
    /\ pc[p] = "check"
    /\ LET r == check(fails) IN
         Emit(p, <<Call("check", ~r.err)>> \o r.evs
                 \o (IF r.err THEN <<Log("Error: error validating config file")>> ELSE <<>>)
                 \o <<Tick("validate"), Summary(cmdCnt[p])>>)
    /\ Return(p)
    /\ UNCHANGED <<oldConfig, curConfig, options, tmpl, hist, heap, nextGen, cfgRet>>

\* Mutant of Update_reload: a reload error is returned on without a log line.
Update_reload_silentFailure(p, fails, out) ==
    /\ pc[p] = "reload"
    /\ LET r == reload(fails, out) IN
         Emit(p, <<Call("reload", ~r.err)>> \o r.evs
                 \o (IF r.err THEN <<>>
                     ELSE <<Tick("reload"), Log("Info: HAProxy successfully reloaded")>>))
    /\ hist' = IF reload(fails, out).err
                THEN [hist EXCEPT !.failed = trace[p][1].cur]
                ELSE [hist EXCEPT !.good = trace[p][1].cur, !.failed = Nil]
    /\ Return(p)
    /\ UNCHANGED <<oldConfig, curConfig, options, tmpl, heap, nextGen, cfgRet>>

\* Mutant of Update_reload: a reload that failed is tried a second time.
Update_reload_retriesOnce(p, fails, out) ==
    /\ pc[p] = "reload"
    /\ LET r == reload(fails, out)
           again == r.err /\ ~\E i \in DOMAIN trace[p] :
                                 trace[p][i].kind = "call" /\ trace[p][i].op = "reload"
       IN /\ Emit(p, <<Call("reload", ~r.err)>> \o r.evs
                     \o (IF again THEN <<>>
                         ELSE IF r.err THEN <<Log("Error: error reloading server")>>
                         ELSE <<Tick("reload"), Log("Info: HAProxy successfully reloaded")>>))
          /\ hist' = IF r.err
                       THEN [hist EXCEPT !.failed = trace[p][1].cur]
                       ELSE [hist EXCEPT !.good = trace[p][1].cur, !.failed = Nil]
          /\ IF again THEN UNCHANGED <<pc, cont, updated, cmdCnt>> ELSE Return(p)
    /\ UNCHANGED <<oldConfig, curConfig, options, tmpl, heap, nextGen, cfgRet>>

\* Update, lines 173-178: reload; on error log and return, else tick and log.
Update_reload(p, fails, out) ==
    /\ pc[p] = "reload"
    /\ LET r == reload(fails, out) IN
         Emit(p, <<Call("reload", ~r.err)>> \o r.evs
                 \o (IF r.err THEN <<Log("Error: error reloading server")>>
                     ELSE <<Tick("reload"), Log("Info: HAProxy successfully reloaded")>>))
    /\ hist' = IF reload(fails, out).err
                THEN [hist EXCEPT !.failed = trace[p][1].cur]
                ELSE [hist EXCEPT !.good = trace[p][1].cur, !.failed = Nil]
    /\ Return(p)
    /\ UNCHANGED <<oldConfig, curConfig, options, tmpl, heap, nextGen, cfgRet>>

\* One step of the Update invocation p after it has entered.
Update_step(p) ==
    \/ \E err \in BOOLEAN : Update_buildFrontendGroup(p, err)
    \/ \E err \in BOOLEAN : Update_buildBackendMaps(p, err)
    \/ Update_equals(p)
    \/ \E u \in BOOLEAN, c \in 0..MaxCmd : Update_dynUpdate(p, u, c)
    \/ Update_sortBackends(p)
    \/ \E err \in BOOLEAN : Update_write(p, err)
    \/ clearConfig_store(p)
    \/ clearConfig_nil(p)
    \/ Update_final(p)
    \/ \E fails \in BOOLEAN : Update_check(p, fails)
    \/ \E fails \in BOOLEAN, out \in BOOLEAN : Update_reload(p, fails, out)

\* The control loop that drives the instance when its use is serialized.
MainLoop == 1

\* Serialized use of the instance: one control loop calls Config, edits the
\* configuration and calls Update, each only after the previous call returned.
Next ==
    \/ Quiescent /\ Config
    \/ Quiescent /\ \E c \in 1..NumContents : Populate(c)
    \/ Quiescent /\ Update_enter(MainLoop)
    \/ Update_step(MainLoop)

Spec == Init /\ [][Next]_vars

\* An instance created with every option set.
InitConfigured ==
    /\ Init
    /\ options = [SortBackends |-> TRUE, ValidateConfig |-> TRUE,
                  HAProxyCmd |-> "haproxy", ReloadCmd |-> "haproxy-reload.sh"]

\* The serialized use with ParseTemplates callable between cycles.
NextTemplates ==
    \/ Quiescent /\ \E F \in SUBSET (1..3) : ParseTemplates(F)
    \/ Next

SpecTemplates == InitConfigured /\ [][NextTemplates]_vars

\* The two callers whose Update invocations may overlap.
TwoCallers == {MainLoop, MainLoop + 1}

\* No configuration object has been created yet.
FirstGeneration == nextGen = Nil + 1

\* Update invoked by two callers with no serialization, on the first
\* generation the instance is given: an invocation may be entered while
\* another is in progress, and their statements interleave.  The
\* configuration is installed while no Update runs.  A panic ends the program.
NextConc ==
    /\ \A q \in Procs : pc[q] # "panic"
    /\ \/ Quiescent /\ FirstGeneration /\ Config
       \/ Quiescent /\ \E c \in 1..NumContents : Populate(c)
       \/ \E p \in TwoCallers : Update_enter(p)
       \/ \E p \in TwoCallers : Update_step(p)

SpecConc == InitConfigured /\ [][NextConc]_vars

\* ------------------------------------------------- reading a trace
\* Positions in a trace t of the calls of the operation op.
CallsOf(t, op) == {i \in DOMAIN t : t[i].kind = "call" /\ t[i].op = op}
Called(t, op) == CallsOf(t, op) # {}
Failed(t, op) == \E i \in CallsOf(t, op) : ~t[i].ok
Succeeded(t, op) == \E i \in CallsOf(t, op) : t[i].ok
Logged(t, op) == \E i \in DOMAIN t : t[i].kind = "log" /\ t[i].op = op
Ticked(t, op) == \E i \in DOMAIN t : t[i].kind = "tick" /\ t[i].op = op
\* The updater reported (updated, cmdCnt) = (u, c) in the cycle of trace t.
Reported(t, u, c) == \E i \in CallsOf(t, "update") : t[i].ok = u /\ t[i].arg = c
ReportedUpdated(t, u) == \E i \in CallsOf(t, "update") : t[i].ok = u
\* The generation that was current, and the one that was old, when the cycle began.
StartCur(t) == t[1].cur
StartOld(t) == t[1].old
\* The cycle of invocation p has returned (state), and returns in this step (action).
Returned(p) == pc[p] = "idle" /\ trace[p] # <<>>
Returns(p) == pc[p] # "idle" /\ pc'[p] = "idle"
\* Update is entered by p in this step.
Enters(p) == pc[p] = "idle" /\ trace'[p] # trace[p]
\* The slots after the step hold: old = the cycle's generation, current absent.
RotatedAfter(p) == oldConfig' = StartCur(trace'[p]) /\ curConfig' = Nil

\* Update is ordinary sequential code: once entered, and given that every
\* external call returns, its next statement is executed.
FairSpec == Spec /\ WF_vars(Update_step(MainLoop))

\* ----------------------------------------------------------- claims

\* C1: every Update cycle that starts with a present current generation G
\* executes clearConfig exactly once, whatever its outcome, and when Update
\* returns the old slot holds G and the current slot is absent.
C1_RotationExactlyOnce ==
    [][\A p \in Procs :
         /\ Cardinality(CallsOf(trace'[p], "clearConfig")) <= 1
         /\ (Returns(p) /\ StartCur(trace'[p]) # Nil) =>
               /\ Cardinality(CallsOf(trace'[p], "clearConfig")) = 1
               /\ RotatedAfter(p)]_vars

\* C1 witness: a cycle whose reload failed has returned, with its generation
\* in old and the current slot absent.
C1_Witness ==
    \E p \in Procs :
        /\ Returned(p)
        /\ Failed(trace[p], "reload")
        /\ StartCur(trace[p]) # Nil
        /\ StartOld(trace[p]) # Nil
        /\ oldConfig = StartCur(trace[p])
        /\ curConfig = Nil

\* C2: in a cycle that reaches the patch step, the templates are written if
\* and only if the updater reported updated=false or cmdCnt>0.
C2_WriteGating ==
    \A p \in Procs : \A u \in BOOLEAN, c \in 0..MaxCmd :
        Reported(trace[p], u, c) =>
            /\ Called(trace[p], "Write") => (~u \/ c > 0)
            /\ (Returned(p) /\ (~u \/ c > 0)) => Called(trace[p], "Write")

\* C2 witness: the fast path (updated=true, cmdCnt=0) returned without a write.
C2_Witness ==
    \E p \in Procs :
        /\ Returned(p)
        /\ Reported(trace[p], TRUE, 0)
        /\ ~Called(trace[p], "Write")

\* C3 as stated: reload is invoked if and only if the updater reported
\* updated=false.
C3_Original ==
    \A p \in Procs : \A u \in BOOLEAN :
        (Returned(p) /\ ReportedUpdated(trace[p], u)) =>
            (Called(trace[p], "reload") <=> ~u)

\* C3 amended: reload is invoked if and only if the updater reported
\* updated=false and the template write of the cycle did not fail; it is
\* never invoked when updated=true.
C3_ReloadGating ==
    \A p \in Procs :
        /\ Called(trace[p], "reload") => ReportedUpdated(trace[p], FALSE)
        /\ \A u \in BOOLEAN :
             (Returned(p) /\ ReportedUpdated(trace[p], u)) =>
                 (Called(trace[p], "reload") <=> (~u /\ ~Failed(trace[p], "Write")))

\* C3 witness: a cycle with updated=false whose write succeeded has reloaded.
C3_Witness ==
    \E p \in Procs :
        /\ Returned(p)
        /\ ReportedUpdated(trace[p], FALSE)
        /\ Succeeded(trace[p], "Write")
        /\ Called(trace[p], "reload")

\* C4: when the template write returns an error the cycle logs it, rotates
\* current into old and returns, and neither validation nor reload is
\* invoked, also when the updater reported updated=false.
C4_WriteFailureNeverReloads ==
    [][\A p \in Procs :
         Failed(trace'[p], "Write") =>
             /\ Logged(trace'[p], "Error: error writing configuration")
             /\ ~Called(trace'[p], "check")
             /\ ~Called(trace'[p], "reload")
             /\ pc'[p] \in {"clearConfig", "clearConfig.nil", "idle"}
             /\ Returns(p) =>
                   /\ Cardinality(CallsOf(trace'[p], "clearConfig")) = 1
                   /\ RotatedAfter(p)]_vars

\* C4 witness: a cycle with updated=false whose write failed has returned
\* rotated.
C4_Witness ==
    \E p \in Procs :
        /\ Returned(p)
        /\ ReportedUpdated(trace[p], FALSE)
        /\ Failed(trace[p], "Write")
        /\ oldConfig = StartCur(trace[p])
        /\ curConfig = Nil

\* C5: a reload is preceded, in its cycle, by a successful template write of
\* the cycle's generation, and a template write is preceded, in its cycle, by
\* the updater's update() on that same current generation.
C5_Ordering ==
    \A p \in Procs : LET t == trace[p] IN
        /\ \A i \in CallsOf(t, "reload") :
              /\ t[i].old = StartCur(t)
              /\ \E j \in CallsOf(t, "Write") : j < i /\ t[j].ok /\ t[j].cur = StartCur(t)
        /\ \A i \in CallsOf(t, "Write") :
              \E j \in CallsOf(t, "update") : j < i /\ t[j].cur = t[i].cur /\ t[j].cur # Nil

\* C5 witness: a reload has been invoked after a write.
C5_Witness ==
    \E p \in Procs :
        /\ Called(trace[p], "reload")
        /\ Succeeded(trace[p], "Write")
        /\ StartOld(trace[p]) # Nil

\* C6: when both build phases succeed and current is structurally equal to
\* old, the cycle calls neither the updater nor the template write, validation
\* or reload, records no timing checkpoint, and rotates current into old.
C6_EqualToOldNoOp ==
    [][\A p \in Procs : LET t == trace'[p] IN
         (/\ Succeeded(t, "BuildFrontendGroup")
          /\ Succeeded(t, "BuildBackendMaps")
          /\ pc'[p] \notin {"Equals", "panic"}
          /\ StartOld(t) # Nil
          /\ heap[StartCur(t)] = heap[StartOld(t)]) =>
             /\ \A i \in DOMAIN t :
                   /\ t[i].kind # "tick"
                   /\ t[i].kind = "call" =>
                        t[i].op \in {"Update", "BuildFrontendGroup", "BuildBackendMaps",
                                     "Equals", "clearConfig"}
             /\ pc'[p] \in {"clearConfig", "clearConfig.nil", "idle"}
             /\ Returns(p) =>
                   /\ Cardinality(CallsOf(t, "clearConfig")) = 1
                   /\ RotatedAfter(p)]_vars

\* C6 witness: a cycle whose generation was another object than old, equal in
\* content, has returned with that generation in old.
C6_Witness ==
    \E p \in Procs :
        /\ Returned(p)
        /\ Succeeded(trace[p], "Equals")
        /\ StartOld(trace[p]) # StartCur(trace[p])
        /\ heap[StartCur(trace[p])] # 0
        /\ oldConfig = StartCur(trace[p])
        /\ curConfig = Nil

\* C7: when the frontend-group build fails, or the backend-maps build fails
\* after it, current is rotated into old exactly once and the cycle returns
\* without compare, patch, write, validation or reload; after a failed
\* frontend-group build the backend-maps build is not run.
C7_BuildFailureDiscards ==
    [][\A p \in Procs : LET t == trace'[p] IN
         /\ Failed(t, "BuildFrontendGroup") => ~Called(t, "BuildBackendMaps")
         /\ (Failed(t, "BuildFrontendGroup") \/ Failed(t, "BuildBackendMaps")) =>
               /\ \A op \in {"Equals", "update", "SortEndpoints", "Write", "check", "reload"} :
                     ~Called(t, op)
               /\ pc'[p] \in {"clearConfig", "clearConfig.nil", "idle"}
               /\ Returns(p) =>
                     /\ Cardinality(CallsOf(t, "clearConfig")) = 1
                     /\ RotatedAfter(p)]_vars

\* C7 witness: a cycle whose backend-maps build failed has returned rotated.
C7_Witness ==
    \E p \in Procs :
        /\ Returned(p)
        /\ Succeeded(trace[p], "BuildFrontendGroup")
        /\ Failed(trace[p], "BuildBackendMaps")
        /\ StartOld(trace[p]) # Nil
        /\ oldConfig = StartCur(trace[p])
        /\ curConfig = Nil

\* C8: Update called with the current slot absent logs one informational
\* message and returns: no build, compare, patch, write, validation, reload
\* or clearConfig, and old is left as it was; and a cycle that returns
\* without having called clearConfig is one that began with current absent.
C8_AbsentCurrentNoOp ==
    [][\A p \in Procs :
         /\ (Enters(p) /\ curConfig = Nil) =>
               /\ pc'[p] = "idle"
               /\ Len(trace'[p]) = 2
               /\ trace'[p][1].kind = "call" /\ trace'[p][1].op = "Update"
               /\ trace'[p][2].kind = "log"
               /\ trace'[p][2].op = "Info: new configuration is empty"
               /\ oldConfig' = oldConfig
               /\ curConfig' = Nil
         /\ (pc'[p] = "idle" /\ trace'[p] # <<>> /\ ~Called(trace'[p], "clearConfig")) =>
               StartCur(trace'[p]) = Nil]_vars

\* C8 witness: an Update on an absent current has returned, old still
\* holding the generation it held.
C8_Witness ==
    \E p \in Procs :
        /\ Returned(p)
        /\ StartCur(trace[p]) = Nil
        /\ StartOld(trace[p]) # Nil
        /\ oldConfig = StartOld(trace[p])
        /\ ~Called(trace[p], "clearConfig")

\* C9: when the updater reported updated=true with cmdCnt>0, validation is
\* enabled and validation fails, the error is logged, no reload is invoked,
\* the summary with the number of commands sent is logged last, and the
\* rotation has been performed.
C9_ValidationIndependence ==
    [][\A p \in Procs : \A c \in 1..MaxCmd : LET t == trace'[p] IN
         (/\ Reported(t, TRUE, c)
          /\ options.ValidateConfig
          /\ Failed(t, "check")) =>
             /\ Logged(t, "Error: error validating config file")
             /\ ~Called(t, "reload")
             /\ pc'[p] = "idle"
             /\ t[Len(t)] = [kind |-> "log", ok |-> TRUE, arg |-> c,
                             op |-> "Info: HAProxy updated without needing to reload. Commands sent",
                             cur |-> Nil, old |-> StartCur(t)]
             /\ Cardinality(CallsOf(t, "clearConfig")) = 1
             /\ Returns(p) => RotatedAfter(p)]_vars

\* C9 witness: a cycle with a failed validation has returned.
C9_Witness ==
    \E p \in Procs :
        /\ Returned(p)
        /\ Failed(trace[p], "check")
        /\ Reported(trace[p], TRUE, MaxCmd)
        /\ oldConfig = StartCur(trace[p])
        /\ curConfig = Nil

\* C10: validation is invoked in a cycle if and only if the updater reported
\* updated=true and cmdCnt>0, ValidateConfig is enabled and the template
\* write of the cycle succeeded; never on the fast path, never before or in
\* the same cycle as a reload.
C10_ValidationGating ==
    \A p \in Procs : LET t == trace[p] IN
        /\ Called(t, "check") =>
              /\ \E c \in 1..MaxCmd : Reported(t, TRUE, c)
              /\ options.ValidateConfig
              /\ \E j \in CallsOf(t, "Write") : t[j].ok /\ \A i \in CallsOf(t, "check") : j < i
              /\ ~Called(t, "reload")
        /\ (/\ Returned(p)
            /\ \E c \in 1..MaxCmd : Reported(t, TRUE, c)
            /\ options.ValidateConfig
            /\ Succeeded(t, "Write")) => Called(t, "check")
        /\ Reported(t, TRUE, 0) => pc[p] # "check"

\* C10 witness: validation was invoked in a returned cycle.
C10_Witness ==
    \E p \in Procs :
        /\ Returned(p)
        /\ Succeeded(trace[p], "check")
        /\ Succeeded(trace[p], "Write")
        /\ options.ValidateConfig

\* Positions in a trace t of the log lines, and of the subprocess runs of op.
LogsOf(t) == {i \in DOMAIN t : t[i].kind = "log"}
ExecsOf(t, op) == {i \in DOMAIN t : t[i].kind = "exec" /\ t[i].op = op}
\* The log line that reports how the cycle of trace t ended.
OutcomeLine(t) ==
    IF StartCur(t) = Nil THEN "Info: new configuration is empty"
    ELSE IF Failed(t, "BuildFrontendGroup") THEN "Error: error building configuration group"
    ELSE IF Failed(t, "BuildBackendMaps") THEN "Error: error building backend maps"
    ELSE IF Succeeded(t, "Equals")
      THEN "InfoV(2): old and new configurations match, skipping reload"
    ELSE IF Failed(t, "Write") THEN "Error: error writing configuration"
    ELSE IF Failed(t, "reload") THEN "Error: error reloading server"
    ELSE IF Succeeded(t, "reload") THEN "Info: HAProxy successfully reloaded"
    ELSE IF Reported(t, TRUE, 0) THEN "Info: old and new configurations match"
    ELSE "Info: HAProxy updated without needing to reload. Commands sent"
\* The log lines a cycle can add to the one that reports its outcome.
ExtraLines ==
    {"Error: error validating config file", "Info: (test) check was skipped",
     "Info: (test) reload was skipped", "Warn: output from haproxy"}
B2N(b) == IF b THEN 1 ELSE 0

\* C11 as stated: every terminal outcome of a cycle produces exactly one log
\* line in total.
C11_Original ==
    \A p \in Procs : Returned(p) => Cardinality(LogsOf(trace[p])) = 1

\* C11 amended: every terminal outcome produces exactly one log line that
\* reports the outcome, and it is the last line of the cycle; before it the
\* cycle logs one more line for each of: a failed validation, a check in
\* unconfigured (test) mode, a reload in unconfigured (test) mode, a reload
\* command that emitted output.
C11_OneOutcomeLine ==
    \A p \in Procs : Returned(p) =>
        LET t == trace[p]
            outcome == {i \in LogsOf(t) : t[i].op \notin ExtraLines}
        IN  /\ Cardinality(outcome) = 1
            /\ \A i \in outcome :
                  /\ t[i].op = OutcomeLine(t)
                  /\ \A j \in LogsOf(t) : j <= i
            /\ Cardinality(LogsOf(t)) =
                  1 + B2N(Failed(t, "check"))
                    + B2N(Called(t, "check") /\ options.HAProxyCmd = "")
                    + B2N(Called(t, "reload") /\ options.ReloadCmd = "")
                    + B2N(Logged(t, "Warn: output from haproxy"))
            /\ Logged(t, "Warn: output from haproxy") => ExecsOf(t, "reload") # {}

\* C11 witness: a cycle has returned after a failed reload whose command
\* emitted output, with two log lines.
C11_Witness ==
    \E p \in Procs :
        /\ Returned(p)
        /\ Failed(trace[p], "reload")
        /\ Logged(trace[p], "Warn: output from haproxy")
        /\ Logged(trace[p], "Error: error reloading server")
        /\ Cardinality(LogsOf(trace[p])) = 2

\* C12: when reload fails for generation B, old already holds B; the next
\* cycle is compared against B, never against the last successfully
\* reloaded generation, and if its current is structurally equal to B it
\* takes the skip path: no patch, no write, no validation, no reload.
C12_StaleAfterFailedReload ==
    \A p \in Procs : LET t == trace[p] IN
        /\ \A i \in CallsOf(t, "reload") :
              ~t[i].ok => (t[i].old = StartCur(t) /\ t[i].cur = Nil)
        /\ (Returned(p) /\ Failed(t, "reload")) =>
              (hist.failed = StartCur(t) /\ hist.good # StartCur(t))
        /\ (t # <<>> /\ StartCur(t) # Nil /\ hist.cmp # Nil) =>
              /\ StartOld(t) = hist.cmp
              /\ hist.good # hist.cmp
              /\ \A i \in CallsOf(t, "Equals") : t[i].old = hist.cmp
              /\ heap[StartCur(t)] = heap[hist.cmp] =>
                    /\ \A op \in {"update", "Write", "check", "reload"} : ~Called(t, op)
                    /\ \A i \in CallsOf(t, "Equals") : t[i].ok
                    /\ (Returned(p) /\ Succeeded(t, "BuildBackendMaps")) =>
                          (Succeeded(t, "Equals") /\ hist.failed = Nil)

\* C12 witness: A was reloaded, the reload of B (different from A) failed,
\* and the next cycle, of a generation equal to B, has returned on the skip
\* path.
C12_Witness ==
    \E p \in Procs :
        /\ Returned(p)
        /\ hist.cmp # Nil
        /\ hist.good # Nil
        /\ heap[hist.good] # heap[hist.cmp]
        /\ StartOld(trace[p]) = hist.cmp
        /\ StartCur(trace[p]) # hist.cmp
        /\ Succeeded(trace[p], "Equals")
        /\ oldConfig = StartCur(trace[p])

\* C13: check() with no HAProxyCmd and reload() with no ReloadCmd return
\* success without running a subprocess; when configured each runs its
\* command exactly once and returns an error if and only if the command
\* failed; reload() logs a warning whenever the command printed something,
\* on success as on failure.
C13_ProcessController ==
    \A p \in Procs : LET t == trace[p] IN
        /\ \A i \in CallsOf(t, "check") :
              IF options.HAProxyCmd = ""
                THEN t[i].ok /\ ExecsOf(t, "check") = {}
                ELSE ExecsOf(t, "check") = {i + 1} /\ t[i].ok = t[i + 1].ok
        /\ \A i \in CallsOf(t, "reload") :
              IF options.ReloadCmd = ""
                THEN t[i].ok /\ ExecsOf(t, "reload") = {}
                ELSE ExecsOf(t, "reload") = {i + 1} /\ t[i].ok = t[i + 1].ok
        /\ ExecsOf(t, "check") # {} => Called(t, "check")
        /\ ExecsOf(t, "reload") # {} => Called(t, "reload")
        /\ \A j \in ExecsOf(t, "reload") :
              (t[j].arg = 1) <=>
                  (/\ j + 1 \in DOMAIN t
                   /\ t[j + 1].kind = "log"
                   /\ t[j + 1].op = "Warn: output from haproxy")

\* C13 witness: a reload command that succeeded and printed something has
\* been run, and the warning was logged.
C13_Witness ==
    \E p \in Procs :
        /\ Succeeded(trace[p], "reload")
        /\ \E j \in ExecsOf(trace[p], "reload") : trace[p][j].ok /\ trace[p][j].arg = 1
        /\ Logged(trace[p], "Warn: output from haproxy")

\* An invocation met a current slot that was not the one it began with: it
\* panicked on a nil current, or one of its steps up to and including its own
\* clearConfig ran while the slot no longer held the cycle's generation.
Anomaly(p) ==
    \/ pc[p] = "panic"
    \/ LET t == trace[p] IN
         /\ t # <<>>
         /\ StartCur(t) # Nil
         /\ \E i \in DOMAIN t :
               /\ \A j \in CallsOf(t, "clearConfig") : i <= j
               /\ t[i].cur # StartCur(t)
\* A rotation ran in the cycles on record and yet the old slot is absent.
LostGeneration == oldConfig = Nil /\ \E p \in Procs : Called(trace[p], "clearConfig")

\* C14: with two unserialized callers of Update, states are reachable (the
\* witness) that no serialized execution produces: as long as no Update was
\* entered while another was in progress, no invocation panics or acts on a
\* slot another invocation cleared, and no rotation leaves old absent.
C14_AnomalyOnlyWhenOverlapped ==
    ~hist.overlap => (~LostGeneration /\ \A p \in Procs : ~Anomaly(p))

\* C14 witness: two overlapping invocations both ran clearConfig for the one
\* installed generation; both have returned, and old is absent: the
\* generation is lost.
C14_Witness ==
    /\ hist.overlap
    /\ LostGeneration
    /\ curConfig = Nil
    /\ \E p \in Procs, q \in Procs :
          /\ p # q
          /\ Returned(p) /\ Returned(q)
          /\ StartCur(trace[p]) # Nil
          /\ StartCur(trace[q]) = StartCur(trace[p])
          /\ Called(trace[p], "clearConfig")
          /\ \E i \in CallsOf(trace[q], "clearConfig") :
                trace[q][i].cur = Nil /\ trace[q][i].old = StartCur(trace[p])

\* The registrations of ParseTemplates in source order.
Registrations == <<"spoe-modsecurity.tmpl", "haproxy.tmpl", "map.tmpl">>
\* What the last ParseTemplates did: it cleared both sets first, attempted
\* the registrations in order, stopped at the first that failed, and
\* returned success only when all three were registered.
ParsedInOrder ==
    tmpl.calls # <<>> =>
        \E k \in 1..3 :
            /\ tmpl.calls = <<"templates.ClearTemplates", "mapsTemplate.ClearTemplates">>
                              \o SubSeq(Registrations, 1, k)
            /\ tmpl.templates \o tmpl.mapsTemplate =
                  SubSeq(Registrations, 1, IF tmpl.err THEN k - 1 ELSE k)
            /\ Len(tmpl.mapsTemplate) <= 1
            /\ ~tmpl.err => k = 3

\* C15 as stated: ParseTemplates clears, registers in order, stops at the
\* first failure, and after a failure no template is left registered for a
\* later Update to use.
C15_Original ==
    /\ ParsedInOrder
    /\ tmpl.err => (tmpl.templates = <<>> /\ tmpl.mapsTemplate = <<>>)
    /\ \A p \in Procs : \A i \in CallsOf(trace[p], "Write") : trace[p][i].arg \in {0, 2}

\* C15 amended: ParseTemplates clears both sets, registers the three
\* templates in order, stops at the first failure and succeeds only when all
\* three are registered; after a failure exactly the registrations that
\* succeeded before it are left registered (nothing from an earlier parse),
\* and an Update that writes renders whatever is registered.
C15_NoPartialSuccess ==
    /\ ParsedInOrder
    /\ \A p \in Procs : pc[p] # "idle" =>
          \A i \in CallsOf(trace[p], "Write") : trace[p][i].arg = Len(tmpl.templates)

\* C15 witness: after a successful parse, a second ParseTemplates failed on
\* its second registration, and an Update has then written with the one
\* template that was left registered.
C15_Witness ==
    /\ tmpl.err
    /\ tmpl.templates = <<"spoe-modsecurity.tmpl">>
    /\ tmpl.mapsTemplate = <<>>
    /\ \E p \in Procs :
          /\ Returned(p)
          /\ \E i \in CallsOf(trace[p], "Write") : trace[p][i].arg = 1 /\ trace[p][i].ok

\* C16: on every path that passes the write step the rotation happens after
\* the write has completed and before validation or reload is invoked: when
\* check() or reload() starts, and when the summary is logged, current is
\* absent and old holds the cycle's generation; the template write and its
\* timing checkpoint run on the unrotated current.
C16_RotateBeforeFinalBranch ==
    \A p \in Procs : LET t == trace[p] IN
        /\ \A i \in CallsOf(t, "check") \cup CallsOf(t, "reload") :
              /\ t[i].cur = Nil
              /\ t[i].old = StartCur(t)
              /\ \E j \in CallsOf(t, "clearConfig") :
                    /\ j < i
                    /\ \A w \in CallsOf(t, "Write") : w + 1 < j
        /\ \A w \in CallsOf(t, "Write") :
              /\ t[w].cur = StartCur(t) /\ t[w].cur # Nil
              /\ t[w].old = StartOld(t)
              /\ t[w + 1].kind = "tick" /\ t[w + 1].cur = StartCur(t)
              /\ \A j \in CallsOf(t, "clearConfig") : w < j
        /\ \A i \in DOMAIN t :
              (t[i].kind = "log" /\ t[i].op \in
                   {"Info: HAProxy updated without needing to reload. Commands sent",
                    "Info: old and new configurations match"}) =>
                  (t[i].cur = Nil /\ t[i].old = StartCur(t))
        /\ pc[p] \in {"final", "check", "reload"} =>
              (curConfig = Nil /\ oldConfig = StartCur(t))

\* C16 witness: a reload is about to start after a write: the slots are
\* rotated and old is not the generation the cycle began with in old.
C16_Witness ==
    \E p \in Procs :
        /\ pc[p] = "reload"
        /\ Succeeded(trace[p], "Write")
        /\ curConfig = Nil
        /\ oldConfig = StartCur(trace[p])
        /\ StartOld(trace[p]) # Nil

TicksOf(t, op) == {i \in DOMAIN t : t[i].kind = "tick" /\ t[i].op = op}

\* C17: in a cycle the "writeTmpl" checkpoint is recorded exactly when a
\* write was attempted, failed or not; "validate" exactly when validation
\* ran, failed or not; "reload" exactly when reload was invoked and returned
\* no error, never after updated=true and never after a reload failure; each
\* at most once, and writeTmpl before validate or reload.
C17_TimingCheckpoints ==
    \A p \in Procs : LET t == trace[p] IN
        /\ \A i \in DOMAIN t :
              t[i].kind = "tick" => t[i].op \in {"writeTmpl", "validate", "reload"}
        /\ Ticked(t, "writeTmpl") <=> Called(t, "Write")
        /\ Ticked(t, "validate") <=> Called(t, "check")
        /\ Ticked(t, "reload") <=> Succeeded(t, "reload")
        /\ Ticked(t, "reload") => ~ReportedUpdated(t, TRUE) /\ ~Failed(t, "reload")
        /\ \A op \in {"writeTmpl", "validate", "reload"} : Cardinality(TicksOf(t, op)) <= 1
        /\ ~(Ticked(t, "validate") /\ Ticked(t, "reload"))
        /\ \A i \in TicksOf(t, "writeTmpl") :
              \A j \in TicksOf(t, "validate") \cup TicksOf(t, "reload") : i < j

\* C17 witness: a returned cycle whose validation failed recorded
\* "writeTmpl" and then "validate".
C17_Witness ==
    \E p \in Procs :
        /\ Returned(p)
        /\ Failed(trace[p], "check")
        /\ Ticked(trace[p], "writeTmpl")
        /\ Ticked(trace[p], "validate")
        /\ \A i \in TicksOf(trace[p], "writeTmpl") :
              \A j \in TicksOf(trace[p], "validate") : i < j

\* The steps of a cycle that C18 counts.
CountedSteps ==
    {"BuildFrontendGroup", "BuildBackendMaps", "Equals", "update", "Write",
     "check", "reload"}

\* C18: every Update cycle terminates (every external call returning), and
\* within one cycle each of build-groups, build-maps, compare, dynamic
\* update, template write, validation and reload is invoked at most once;
\* validation and reload are never both invoked in a cycle.
C18_BoundedSinglePass ==
    /\ [](\A p \in Procs : LET t == trace[p] IN
            /\ \A op \in CountedSteps : Cardinality(CallsOf(t, op)) <= 1
            /\ ~(Called(t, "check") /\ Called(t, "reload")))
    /\ (pc[MainLoop] # "idle") ~> (pc[MainLoop] = "idle")

\* C18 witness: a cycle that went through every step up to a failed reload
\* has returned, the reload having been invoked once.
C18_Witness ==
    \E p \in Procs :
        /\ Returned(p)
        /\ Failed(trace[p], "reload")
        /\ Cardinality(CallsOf(trace[p], "reload")) = 1
        /\ \A op \in CountedSteps \ {"check"} : Cardinality(CallsOf(trace[p], op)) = 1

\* C19: with Config() and Update() serialized, the current slot is absent
\* whenever Update returns (the no-op on an absent current included), the
\* current slot becomes present only through Config(), an old slot that is
\* present never becomes absent again, and the old slot changes only in the
\* store of clearConfig.
C19_SlotInvariant ==
    [][/\ \A p \in Procs : Returns(p) => curConfig' = Nil
       /\ \A p \in Procs : (Enters(p) /\ pc'[p] = "idle") => curConfig' = Nil
       /\ (curConfig' # curConfig /\ curConfig' # Nil) =>
             /\ Quiescent
             /\ curConfig = Nil
             /\ cfgRet' = curConfig'
             /\ nextGen' = nextGen + 1
             /\ UNCHANGED <<pc, trace, oldConfig>>
       /\ oldConfig # Nil => oldConfig' # Nil
       /\ oldConfig' # oldConfig =>
             \E p \in Procs : /\ pc[p] = "clearConfig"
                              /\ pc'[p] = "clearConfig.nil"
                              /\ oldConfig' = curConfig
      ]_vars

\* C19 witness: a cycle has returned after replacing a present old slot by
\* another generation, and the current slot is absent.
C19_Witness ==
    \E p \in Procs :
        /\ Returned(p)
        /\ curConfig = Nil
        /\ StartOld(trace[p]) # Nil
        /\ oldConfig # Nil
        /\ oldConfig # StartOld(trace[p])
        /\ oldConfig = StartCur(trace[p])

\* C20: Config() is get-or-create: on an absent current it creates a fresh
\* generation, installs it and returns it; on a present current it returns
\* the installed generation and replaces nothing, so that a second Config()
\* with no Update in between returns what the first returned. The generation
\* it returns after a rotating Update differs from the one now in old, and
\* Config() never modifies old.
C20_ConfigGetOrCreate ==
    /\ [](curConfig # Nil => (cfgRet = curConfig /\ (Quiescent => curConfig # oldConfig)))
    /\ [][/\ (cfgRet' # cfgRet \/ nextGen' # nextGen) =>
                /\ curConfig = Nil
                /\ cfgRet' = nextGen
                /\ nextGen' = nextGen + 1
                /\ curConfig' = cfgRet'
                /\ cfgRet' \notin {Nil, cfgRet, oldConfig}
                /\ oldConfig' = oldConfig
          /\ (curConfig # Nil /\ curConfig' # Nil) => curConfig' = curConfig
         ]_vars

\* C20 witness: after a cycle that rotated a generation into old, Config()
\* has installed and returned another one.
C20_Witness ==
    /\ Quiescent
    /\ Returned(MainLoop)
    /\ oldConfig # Nil
    /\ oldConfig = StartCur(trace[MainLoop])
    /\ curConfig # Nil
    /\ cfgRet = curConfig
    /\ cfgRet # oldConfig

====
